---- MODULE Spec2Model ----
(***************************************************************************)
(* Model of supermarket-checkout-simulation.py: a menu loop over an        *)
(* in-memory catalog (stock) and a cart.                                   *)
(*                                                                         *)
(* Text is modelled as a sequence of one-character strings, so that        *)
(* strip(), lower(), int() and difflib's similarity are computed and not   *)
(* assumed.  Prices are held in cents (5.50 -> 550): every price is a      *)
(* whole number of cents and every quantity is an integer, so the sums of  *)
(* show_total are exact in cents and agree with the two-decimal display.   *)
(*                                                                         *)
(* The program is single-threaded.  It blocks in input() (line 32) and in  *)
(* sleep() (lines 168, 179); those are the points where the terminal can   *)
(* deliver a line, an end of input (EOFError) or an interrupt              *)
(* (KeyboardInterrupt).  Each action is the code that runs from one        *)
(* blocking point to the next.                                             *)
(***************************************************************************)
EXTENDS Integers, Sequences, FiniteSets, TLC

(***************************************************************************)
(* Bounds of the model.                                                    *)
(***************************************************************************)
\* the integers typed at a prompt range over -1 .. MaxTyped
MaxTyped == 2
\* add_product commits a line only while the cart holds fewer lines
MaxCart == 2

(***************************************************************************)
(* Text: str.strip, str.lower, int(str), string comparison.                *)
(***************************************************************************)
UpperCase == <<"A","B","C","D","E","F","G","H","I","J","K","L","M",
               "N","O","P","Q","R","S","T","U","V","W","X","Y","Z">>
LowerCase == <<"a","b","c","d","e","f","g","h","i","j","k","l","m",
               "n","o","p","q","r","s","t","u","v","w","x","y","z">>
Digits == <<"0","1","2","3","4","5","6","7","8","9">>
Whitespace == {" ", "\t"}

IndexIn(seq, c) == CHOOSE i \in 1..Len(seq) : seq[i] = c
Occurs(seq, c) == \E i \in 1..Len(seq) : seq[i] = c

\* str.lower(), one character
LowerChar(c) == IF Occurs(UpperCase, c) THEN LowerCase[IndexIn(UpperCase, c)] ELSE c
\* str.lower()
Lower(s) == [i \in 1..Len(s) |-> LowerChar(s[i])]

\* str.upper(), one character
UpperChar(c) == IF Occurs(LowerCase, c) THEN UpperCase[IndexIn(LowerCase, c)] ELSE c
\* str.capitalize()
Capitalize(s) == [i \in 1..Len(s) |-> IF i = 1 THEN UpperChar(s[i]) ELSE LowerChar(s[i])]

\* str.strip(): drop leading and trailing whitespace
Strip(s) ==
    LET keep == {i \in 1..Len(s) : s[i] \notin Whitespace}
    IN  IF keep = {} THEN <<>>
        ELSE LET lo == CHOOSE i \in keep : \A j \in keep : i <= j
                 hi == CHOOSE i \in keep : \A j \in keep : j <= i
             IN  SubSeq(s, lo, hi)

RECURSIVE DigitsValue(_)
\* the value of a string of decimal digits
DigitsValue(s) ==
    IF s = <<>> THEN 0
    ELSE 10 * DigitsValue(SubSeq(s, 1, Len(s) - 1)) + (IndexIn(Digits, s[Len(s)]) - 1)

AllDigits(s) == s # <<>> /\ \A i \in 1..Len(s) : Occurs(Digits, s[i])

\* int(value_str): surrounding whitespace ignored, an optional sign, then
\* decimal digits; anything else raises ValueError (ok = FALSE)
ParseInt(s) ==
    LET t == Strip(s)
        signed == t # <<>> /\ t[1] \in {"+", "-"}
        body == IF signed THEN Tail(t) ELSE t
    IN  IF AllDigits(body)
        THEN [ok |-> TRUE,
              value |-> IF signed /\ t[1] = "-" THEN 0 - DigitsValue(body)
                        ELSE DigitsValue(body)]
        ELSE [ok |-> FALSE, value |-> 0]

RECURSIVE StrGreater(_, _)
\* s > t for lower-case words (Python compares code point by code point)
StrGreater(s, t) ==
    IF s = <<>> THEN FALSE
    ELSE IF t = <<>> THEN TRUE
    ELSE IF s[1] # t[1] THEN IndexIn(LowerCase, s[1]) > IndexIn(LowerCase, t[1])
    ELSE StrGreater(Tail(s), Tail(t))

(***************************************************************************)
(* difflib.get_close_matches(product, stock.keys(), n=3, cutoff=0.6)       *)
(***************************************************************************)
SuggestMax == 3
CutoffTenths == 6

\* length of the longest common run of a[i..ahi) and b[j..bhi), 0-based
CommonPrefix(a, b, i, j, ahi, bhi) ==
    LET room == IF ahi - i < bhi - j THEN ahi - i ELSE bhi - j
        same(k) == \A d \in 0..(k - 1) : a[i + d + 1] = b[j + d + 1]
    IN  CHOOSE k \in 0..room : same(k) /\ (k = room \/ ~same(k + 1))

\* SequenceMatcher.find_longest_match: the longest block, earliest in a,
\* then earliest in b (no junk: both sequences are shorter than 200)
FindLongestMatch(a, b, alo, ahi, blo, bhi) ==
    LET blocks == {[i |-> i, j |-> j, k |-> CommonPrefix(a, b, i, j, ahi, bhi)] :
                        i \in alo..(ahi - 1), j \in blo..(bhi - 1)}
        sizes == {m.k : m \in blocks} \cup {0}
        best == CHOOSE k \in sizes : \A k2 \in sizes : k2 <= k
        longest == {m \in blocks : m.k = best}
    IN  IF best = 0 THEN [i |-> alo, j |-> blo, k |-> 0]
        ELSE CHOOSE m \in longest :
                \A m2 \in longest : m.i < m2.i \/ (m.i = m2.i /\ m.j <= m2.j)

RECURSIVE MatchCount(_, _, _, _, _, _)
\* the longest block m, then the blocks to its left and to its right
AroundMatch(a, b, alo, ahi, blo, bhi, m) ==
    IF m.k = 0 THEN 0
    ELSE m.k + MatchCount(a, b, alo, m.i, blo, m.j)
             + MatchCount(a, b, m.i + m.k, ahi, m.j + m.k, bhi)

\* SequenceMatcher.get_matching_blocks: total size of the matching blocks
MatchCount(a, b, alo, ahi, blo, bhi) ==
    AroundMatch(a, b, alo, ahi, blo, bhi, FindLongestMatch(a, b, alo, ahi, blo, bhi))

\* SequenceMatcher.ratio() = 2.0 * M / T, kept as the pair (2M, T)
Ratio(a, b) ==
    [num |-> 2 * MatchCount(a, b, 0, Len(a), 0, Len(b)), den |-> Len(a) + Len(b)]

\* the pairs (score, x) of get_close_matches, before the cutoff
Scored(word, possibilities) == {[x |-> x, score |-> Ratio(x, word)] : x \in possibilities}

\* ratio() >= cutoff; quick_ratio and real_quick_ratio are upper bounds of
\* ratio and so never reject a word that ratio accepts
Close(s) == IF s.score.den = 0 THEN TRUE
            ELSE 10 * s.score.num >= CutoffTenths * s.score.den

\* (score1, x1) > (score2, x2), the order of heapq.nlargest
Better(s1, s2) ==
    \/ s1.score.num * s2.score.den > s2.score.num * s1.score.den
    \/ /\ s1.score.num * s2.score.den = s2.score.num * s1.score.den
       /\ StrGreater(s1.x, s2.x)

\* the n best of the close words, best first
Largest(result) ==
    LET rank(s) == Cardinality({s2 \in result : Better(s2, s)})
        n == IF Cardinality(result) < SuggestMax THEN Cardinality(result) ELSE SuggestMax
    IN  [i \in 1..n |-> (CHOOSE s \in result : rank(s) = i - 1).x]

get_close_matches(word, possibilities) ==
    Largest({s \in Scored(word, possibilities) : Close(s)})

(***************************************************************************)
(* State.                                                                  *)
(***************************************************************************)
VARIABLES
    stock,      \* the catalog: product -> [price (cents), quantity]  (line 11)
    cart,       \* the cart: sequence of [product, quantity, price]   (line 19)
    pc,         \* the blocking call the program is waiting in, or "exited"
    option,     \* menu(): the option read at line 167
    matches,    \* choose_product_name(): the suggestions of line 87
    product,    \* add_product(): the resolver's result (line 112), <<>> for None
    available,  \* add_product(): the quantity read at line 117
    event,      \* what the terminal delivered to the last blocking call
    typed,      \* the line it delivered, when event = "line"
    out,        \* the messages printed since the last blocking call
    total,      \* show_total(): the total printed since the last blocking call
    stock0,     \* history: stock when the last menu option was read
    cart0,      \* history: cart when the last menu option was read
    reported    \* history: the total of the last checkout that was over when
                \* the last menu option was read, none since the last add

vars == <<stock, cart, pc, option, matches, product, available,
          event, typed, out, total, stock0, cart0, reported>>

rice == <<"r","i","c","e">>
beans == <<"b","e","a","n","s">>
pasta == <<"p","a","s","t","a">>
oil == <<"o","i","l">>

\* the seed of line 11-16, prices in cents
SeedStock ==
    (rice :> [price |-> 550, quantity |-> 10]) @@
    (beans :> [price |-> 720, quantity |-> 8]) @@
    (pasta :> [price |-> 380, quantity |-> 15]) @@
    (oil :> [price |-> 600, quantity |-> 5])

None == <<>>
\* maximum=None of read_positive_int
NoMaximum == -1
\* no total was printed
NoTotal == -1

(***************************************************************************)
(* What the terminal can deliver.                                          *)
(***************************************************************************)
RECURSIVE NatLine(_)
NatLine(n) == IF n < 10 THEN <<Digits[n + 1]>>
              ELSE NatLine(n \div 10) \o <<Digits[(n % 10) + 1]>>
IntLine(n) == IF n < 0 THEN <<"-">> \o NatLine(0 - n) ELSE NatLine(n)

\* a prompt is given a line of its own set, an end of input or an interrupt
Deliveries(lines) ==
    {[ev |-> "line", text |-> l] : l \in lines} \cup
    {[ev |-> "interrupt", text |-> <<>>], [ev |-> "eof", text |-> <<>>]}

NumberLines == {IntLine(n) : n \in (0 - 1)..MaxTyped}

\* typed at the menu prompt: the five options, one of them padded, and three
\* texts that are no option
MenuLines ==
    { <<"0">>, <<"1">>, <<"2">>, <<" ","2">>, <<"3">>, <<"4">>,
      <<"5">>, <<"x">>, <<>> }

\* typed at the product-name prompt
NameLines ==
    { <<>>,                                 \* blank
      <<"0">>,                              \* cancel
      <<" ","R","i","c","e"," ">>,          \* a key, padded and capitalised
      <<"o","i","l">>,                      \* a key
      <<"b","e","n","s">>,                  \* one close match: beans
      <<"p","e","a","n","s">>,              \* two close matches: beans, pasta
      <<"x","y","z">> }                     \* no close match

\* typed at the prompt of the suggestions
ChoiceLines == NumberLines \cup { <<"x">> }

\* typed at the quantity prompt
QuantityLines == NumberLines \cup { <<" ","3"," ">>, <<"2","0">>, <<"a","b","c">> }

(***************************************************************************)
(* read_positive_int, one pass of its loop (lines 42-57).                  *)
(***************************************************************************)
\* mutant of read_positive_int: the interrupt is swallowed and the minimum
\* is returned
ReadIntSwallowsInterrupt(in, minimum, maximum) ==
    IF in.ev = "interrupt"
    THEN [kind |-> "return", value |-> minimum, out |-> <<"operation_cancelled">>]
    ELSE IF in.ev = "eof"
    THEN [kind |-> "EOFError", value |-> 0, out |-> <<>>]
    ELSE LET parsed == ParseInt(Strip(in.text))
         IN  IF ~parsed.ok
             THEN [kind |-> "again", value |-> 0, out |-> <<"invalid_integer">>]
             ELSE IF parsed.value < minimum
             THEN [kind |-> "again", value |-> 0, out |-> <<"attention_minimum">>]
             ELSE IF maximum # NoMaximum /\ parsed.value > maximum
             THEN [kind |-> "again", value |-> 0, out |-> <<"attention_maximum">>]
             ELSE [kind |-> "return", value |-> parsed.value, out |-> <<>>]

\* mutant of read_positive_int: the minimum itself is refused
ReadIntExcludesMinimum(in, minimum, maximum) ==
    IF in.ev = "interrupt"
    THEN [kind |-> "KeyboardInterrupt", value |-> 0, out |-> <<"operation_cancelled">>]
    ELSE IF in.ev = "eof"
    THEN [kind |-> "EOFError", value |-> 0, out |-> <<>>]
    ELSE LET parsed == ParseInt(Strip(in.text))
         IN  IF ~parsed.ok
             THEN [kind |-> "again", value |-> 0, out |-> <<"invalid_integer">>]
             ELSE IF parsed.value <= minimum
             THEN [kind |-> "again", value |-> 0, out |-> <<"attention_minimum">>]
             ELSE IF maximum # NoMaximum /\ parsed.value > maximum
             THEN [kind |-> "again", value |-> 0, out |-> <<"attention_maximum">>]
             ELSE [kind |-> "return", value |-> parsed.value, out |-> <<>>]

read_positive_int(in, minimum, maximum) ==
    IF in.ev = "interrupt"
    THEN [kind |-> "KeyboardInterrupt", value |-> 0, out |-> <<"operation_cancelled">>]
    ELSE IF in.ev = "eof"
    THEN [kind |-> "EOFError", value |-> 0, out |-> <<>>]
    ELSE LET parsed == ParseInt(Strip(in.text))
         IN  IF ~parsed.ok
             THEN [kind |-> "again", value |-> 0, out |-> <<"invalid_integer">>]
             ELSE IF parsed.value < minimum
             THEN [kind |-> "again", value |-> 0, out |-> <<"attention_minimum">>]
             ELSE IF maximum # NoMaximum /\ parsed.value > maximum
             THEN [kind |-> "again", value |-> 0, out |-> <<"attention_maximum">>]
             ELSE [kind |-> "return", value |-> parsed.value, out |-> <<>>]

(***************************************************************************)
(* show_total (lines 140-153): the accumulated total, in cents.            *)
(***************************************************************************)
\* mutant of CartTotal: "total = subtotal" in place of "total += subtotal"
CartTotalKeepsLast(c) ==
    IF c = <<>> THEN 0 ELSE c[Len(c)].quantity * c[Len(c)].price

RECURSIVE CartTotal(_)
CartTotal(c) ==
    IF c = <<>> THEN 0
    ELSE CartTotal(SubSeq(c, 1, Len(c) - 1)) + c[Len(c)].quantity * c[Len(c)].price

(***************************************************************************)
(* The program.                                                            *)
(***************************************************************************)
Init ==
    /\ stock = SeedStock
    /\ cart = <<>>
    /\ pc = "menu"
    /\ option = <<>>
    /\ matches = <<>>
    /\ product = None
    /\ available = 0
    /\ event = "start"
    /\ typed = <<>>
    /\ out = <<>>
    /\ total = NoTotal
    /\ stock0 = SeedStock
    /\ cart0 = <<>>
    /\ reported = NoTotal

\* the terminal delivered `in` to the blocking call
Delivered(in) == event' = in.ev /\ typed' = in.text

\* control is back at the menu prompt of line 167 with `msgs` printed; the
\* locals of the handler that returned are gone
ToMenu(msgs) ==
    /\ pc' = "menu"
    /\ out' = msgs
    /\ total' = NoTotal
    /\ matches' = <<>>
    /\ product' = None
    /\ available' = 0

\* mutant of MenuInterrupted: the interrupt ends the loop
MenuInterruptedLeaves ==
    /\ pc' = "exited"
    /\ out' = <<"interruption_detected">>
    /\ total' = NoTotal
    /\ matches' = <<>>
    /\ product' = None
    /\ available' = 0

\* menu() line 185-186: KeyboardInterrupt reaches the loop
MenuInterrupted == ToMenu(<<"interruption_detected">>)

\* menu() line 187-189: any other exception reaches the loop
MenuCaught(msgs) == ToMenu(msgs \o <<"unexpected_error">>)

\* menu() line 167: the menu prompt
MenuPrompt ==
    /\ pc = "menu"
    /\ \E in \in Deliveries(MenuLines) :
        /\ Delivered(in)
        /\ IF in.ev = "interrupt" THEN MenuInterrupted /\ UNCHANGED option
           ELSE IF in.ev = "eof" THEN MenuCaught(<<>>) /\ UNCHANGED option
           ELSE /\ option' = Strip(in.text)
                /\ pc' = "sleep_short"
                /\ out' = <<>>
                /\ total' = NoTotal
                /\ UNCHANGED <<matches, product, available>>
    /\ stock0' = stock
    /\ cart0' = cart
    /\ reported' = IF total # NoTotal THEN total ELSE reported
    /\ UNCHANGED <<stock, cart>>

\* show_stock() (lines 60-70); `fails`: a print of line 69 raises
show_stock(fails) ==
    /\ IF fails THEN MenuCaught(<<"stock_header">>)
       ELSE ToMenu(<<"stock_header", "stock_listing">>)
    /\ UNCHANGED <<stock, cart, stock0, cart0>>

\* mutant of show_total: the total is not reset at line 147 and carries on
\* from the checkout before
show_totalKeepsRunning(fails) ==
    /\ IF cart = <<>>
       THEN ToMenu(<<"cart_header", "cart_empty">>)
       ELSE IF fails
       THEN MenuCaught(<<"cart_header">>)
       ELSE /\ pc' = "menu"
            /\ out' = <<"cart_header", "cart_total">>
            /\ total' = (IF reported = NoTotal THEN 0 ELSE reported) + CartTotal(cart)
            /\ UNCHANGED <<matches, product, available>>
    /\ UNCHANGED <<stock, cart, stock0, cart0>>

\* show_total() (lines 140-153); `fails`: the print of line 151 raises
show_total(fails) ==
    /\ IF cart = <<>>
       THEN ToMenu(<<"cart_header", "cart_empty">>)
       ELSE IF fails
       THEN MenuCaught(<<"cart_header">>)
       ELSE /\ pc' = "menu"
            /\ out' = <<"cart_header", "cart_total">>
            /\ total' = CartTotal(cart)
            /\ UNCHANGED <<matches, product, available>>
    /\ UNCHANGED <<stock, cart, stock0, cart0>>

\* add_product() is called (line 173) and blocks in the prompt of line 80
add_product ==
    /\ pc' = "name"
    /\ out' = <<>>
    /\ total' = NoTotal
    /\ matches' = <<>>
    /\ product' = None
    /\ available' = 0
    /\ UNCHANGED <<stock, cart, stock0, cart0>>

\* menu() line 178-179: option "0" pauses before it leaves
ExitChosen ==
    /\ pc' = "sleep_med"
    /\ out' = <<>>
    /\ total' = NoTotal
    /\ UNCHANGED <<stock, cart, matches, product, available, stock0, cart0>>

\* menu() line 182-183
InvalidOption ==
    /\ ToMenu(<<"invalid_option">>)
    /\ UNCHANGED <<stock, cart, stock0, cart0>>

\* menu() lines 168-183: the short pause, then the dispatch on the option
Dispatch ==
    /\ pc = "sleep_short"
    /\ UNCHANGED <<option, typed, reported>>
    /\ \/ /\ event' = "interrupt"
          /\ MenuInterrupted
          /\ UNCHANGED <<stock, cart, stock0, cart0>>
       \/ /\ event' = "elapsed"
          /\ IF option = <<"1">> THEN \E fails \in BOOLEAN : show_stock(fails)
             ELSE IF option = <<"2">> THEN add_product
             ELSE IF option = <<"3">> THEN \E fails \in BOOLEAN : show_total(fails)
             ELSE IF option = <<"4">> THEN \E fails \in BOOLEAN : show_stock(fails)
             ELSE IF option = <<"0">> THEN ExitChosen
             ELSE InvalidOption

\* menu() lines 179-181: the pause of option "0", then the loop is left
Leave ==
    /\ pc = "sleep_med"
    /\ UNCHANGED <<option, typed, stock, cart, stock0, cart0, reported>>
    /\ \/ /\ event' = "interrupt"
          /\ MenuInterrupted
       \/ /\ event' = "elapsed"
          /\ pc' = "exited"
          /\ out' = <<"exiting">>
          /\ total' = NoTotal
          /\ UNCHANGED <<matches, product, available>>

(***************************************************************************)
(* choose_product_name (lines 73-101), one pass from each of its prompts.  *)
(* kind: "return" (value = the key, or None), "choice" (the suggestions    *)
(* are shown and the choice is asked), "again" (the name is asked again),  *)
(* "EOFError" (the exception leaves the function).                         *)
(***************************************************************************)
\* mutant of Normalize: the typed name is trimmed but not lower-cased
NormalizeKeepsCase(text) == Strip(text)

\* line 80: safe_input(...).strip().lower()
Normalize(text) == Lower(Strip(text))

\* mutant of ResolveName: an unknown name without suggestions returns None
ResolveNameGivesUp(in) ==
    IF in.ev = "interrupt"
    THEN [kind |-> "return", value |-> None, matches |-> matches,
          out |-> <<"action_cancelled">>]
    ELSE IF in.ev = "eof"
    THEN [kind |-> "EOFError", value |-> None, matches |-> matches, out |-> <<>>]
    ELSE LET name == Normalize(in.text)
         IN  IF name \in {<<"0">>, <<>>}
             THEN [kind |-> "return", value |-> None, matches |-> matches, out |-> <<>>]
             ELSE IF name \in DOMAIN stock
             THEN [kind |-> "return", value |-> name, matches |-> matches, out |-> <<>>]
             ELSE LET m == get_close_matches(name, DOMAIN stock)
                  IN  IF m # <<>>
                      THEN [kind |-> "choice", value |-> None, matches |-> m,
                            out |-> <<"did_you_mean">>]
                      ELSE [kind |-> "return", value |-> None, matches |-> m,
                            out |-> <<"no_suggestions">>]

\* lines 80-101: the product-name prompt delivered `in`
ResolveName(in) ==
    IF in.ev = "interrupt"
    THEN [kind |-> "return", value |-> None, matches |-> matches,
          out |-> <<"action_cancelled">>]
    ELSE IF in.ev = "eof"
    THEN [kind |-> "EOFError", value |-> None, matches |-> matches, out |-> <<>>]
    ELSE LET name == Normalize(in.text)
         IN  IF name \in {<<"0">>, <<>>}
             THEN [kind |-> "return", value |-> None, matches |-> matches, out |-> <<>>]
             ELSE IF name \in DOMAIN stock
             THEN [kind |-> "return", value |-> name, matches |-> matches, out |-> <<>>]
             ELSE LET m == get_close_matches(name, DOMAIN stock)
                  IN  IF m # <<>>
                      THEN [kind |-> "choice", value |-> None, matches |-> m,
                            out |-> <<"did_you_mean">>]
                      ELSE [kind |-> "again", value |-> None, matches |-> m,
                            out |-> <<"no_suggestions">>]

\* mutant of ResolveChoice: the suggestion is returned as it is displayed
\* (line 91), capitalized
ResolveChoiceReturnsShown(in) ==
    LET r == read_positive_int(in, 0, Len(matches))
    IN  IF r.kind = "KeyboardInterrupt"
        THEN [kind |-> "return", value |-> None, matches |-> matches,
              out |-> r.out \o <<"action_cancelled">>]
        ELSE IF r.kind = "EOFError"
        THEN [kind |-> "EOFError", value |-> None, matches |-> matches, out |-> <<>>]
        ELSE IF r.kind = "again"
        THEN [kind |-> "choice", value |-> None, matches |-> matches, out |-> r.out]
        ELSE IF r.value = 0
        THEN [kind |-> "again", value |-> None, matches |-> matches, out |-> <<>>]
        ELSE [kind |-> "return", value |-> Capitalize(matches[r.value]),
              matches |-> matches, out |-> <<>>]

\* mutant of ResolveChoice: every accepted choice returns the first suggestion
ResolveChoiceTakesFirst(in) ==
    LET r == read_positive_int(in, 0, Len(matches))
    IN  IF r.kind = "KeyboardInterrupt"
        THEN [kind |-> "return", value |-> None, matches |-> matches,
              out |-> r.out \o <<"action_cancelled">>]
        ELSE IF r.kind = "EOFError"
        THEN [kind |-> "EOFError", value |-> None, matches |-> matches, out |-> <<>>]
        ELSE IF r.kind = "again"
        THEN [kind |-> "choice", value |-> None, matches |-> matches, out |-> r.out]
        ELSE IF r.value = 0
        THEN [kind |-> "again", value |-> None, matches |-> matches, out |-> <<>>]
        ELSE [kind |-> "return", value |-> matches[1], matches |-> matches,
              out |-> <<>>]

\* lines 93-101: the prompt of the suggestions delivered `in`
ResolveChoice(in) ==
    LET r == read_positive_int(in, 0, Len(matches))
    IN  IF r.kind = "KeyboardInterrupt"
        THEN [kind |-> "return", value |-> None, matches |-> matches,
              out |-> r.out \o <<"action_cancelled">>]
        ELSE IF r.kind = "EOFError"
        THEN [kind |-> "EOFError", value |-> None, matches |-> matches, out |-> <<>>]
        ELSE IF r.kind = "again"
        THEN [kind |-> "choice", value |-> None, matches |-> matches, out |-> r.out]
        ELSE IF r.value = 0
        THEN [kind |-> "again", value |-> None, matches |-> matches, out |-> <<>>]
        ELSE [kind |-> "return", value |-> matches[r.value], matches |-> matches,
              out |-> <<>>]

(***************************************************************************)
(* add_product (lines 104-137).                                            *)
(***************************************************************************)
\* mutant of ProductChosen: "available < 0" in place of "available <= 0"
ProductChosenAsksSoldOut(p, msgs) ==
    /\ IF p = None
       THEN ToMenu(msgs \o <<"no_product_selected">>)
       ELSE IF p \notin DOMAIN stock
       THEN MenuCaught(msgs \o <<"KeyError">>)
       ELSE IF stock[p].quantity < 0
       THEN ToMenu(msgs \o <<"no_stock">>)
       ELSE /\ product' = p
            /\ available' = stock[p].quantity
            /\ matches' = <<>>
            /\ pc' = "qty"
            /\ out' = msgs
            /\ total' = NoTotal
    /\ UNCHANGED <<stock, cart>>

\* lines 112-125: the resolver returned p and its locals are gone; the stock
\* is looked up (line 117 raises KeyError for a p that is no key, which the
\* menu loop catches at lines 187-189) and the quantity is asked
ProductChosen(p, msgs) ==
    /\ IF p = None
       THEN ToMenu(msgs \o <<"no_product_selected">>)
       ELSE IF p \notin DOMAIN stock
       THEN MenuCaught(msgs \o <<"KeyError">>)
       ELSE IF stock[p].quantity <= 0
       THEN ToMenu(msgs \o <<"no_stock">>)
       ELSE /\ product' = p
            /\ available' = stock[p].quantity
            /\ matches' = <<>>
            /\ pc' = "qty"
            /\ out' = msgs
            /\ total' = NoTotal
    /\ UNCHANGED <<stock, cart>>

\* the step of add_product that follows a pass r of the resolver
AfterResolve(r) ==
    IF r.kind = "return" THEN ProductChosen(r.value, r.out)
    ELSE IF r.kind = "EOFError"
    THEN MenuCaught(r.out) /\ UNCHANGED <<stock, cart>>
    ELSE /\ pc' = IF r.kind = "choice" THEN "choice" ELSE "name"
         /\ matches' = r.matches
         /\ out' = r.out
         /\ total' = NoTotal
         /\ UNCHANGED <<stock, cart, product, available>>

\* line 80: the product-name prompt
NamePrompt ==
    /\ pc = "name"
    /\ \E in \in Deliveries(NameLines) : Delivered(in) /\ AfterResolve(ResolveName(in))
    /\ UNCHANGED <<option, stock0, cart0, reported>>

\* line 93: the prompt of the suggestions
ChoicePrompt ==
    /\ pc = "choice"
    /\ \E in \in Deliveries(ChoiceLines) : Delivered(in) /\ AfterResolve(ResolveChoice(in))
    /\ UNCHANGED <<option, stock0, cart0, reported>>

\* mutant of Commit: the stock is not decremented
CommitKeepsStock(quantity) ==
    /\ Len(cart) < MaxCart
    /\ cart' = Append(cart, [product |-> product, quantity |-> quantity,
                             price |-> stock[product].price])
    /\ stock' = stock
    /\ ToMenu(<<"added_to_cart">>)

\* mutant of Commit: the new quantity is stored under "price"
CommitWritesPrice(quantity) ==
    /\ Len(cart) < MaxCart
    /\ cart' = Append(cart, [product |-> product, quantity |-> quantity,
                             price |-> stock[product].price])
    /\ stock' = [stock EXCEPT ![product].price = available - quantity]
    /\ ToMenu(<<"added_to_cart">>)

\* mutant of Commit: the stock is decremented by one unit whatever the quantity
CommitTakesOne(quantity) ==
    /\ Len(cart) < MaxCart
    /\ cart' = Append(cart, [product |-> product, quantity |-> quantity,
                             price |-> stock[product].price])
    /\ stock' = [stock EXCEPT ![product].quantity = available - 1]
    /\ ToMenu(<<"added_to_cart">>)

\* lines 131-135: the line is appended and the stock is decremented
Commit(quantity) ==
    /\ Len(cart) < MaxCart
    /\ cart' = Append(cart, [product |-> product, quantity |-> quantity,
                             price |-> stock[product].price])
    /\ stock' = [stock EXCEPT ![product].quantity = available - quantity]
    /\ ToMenu(<<"added_to_cart">>)

\* mutant of QuantityRead: the availability check of line 127 is missing
QuantityReadUnchecked(quantity) == Commit(quantity)

\* mutant of QuantityRead: the line is appended before the availability check
QuantityReadAppendsFirst(quantity) ==
    IF quantity > available
    THEN /\ cart' = Append(cart, [product |-> product, quantity |-> quantity,
                                  price |-> stock[product].price])
         /\ ToMenu(<<"not_enough_stock">>)
         /\ UNCHANGED stock
    ELSE Commit(quantity)

\* lines 127-135: the quantity was read
QuantityRead(quantity) ==
    IF quantity > available
    THEN ToMenu(<<"not_enough_stock">>) /\ UNCHANGED <<stock, cart>>
    ELSE Commit(quantity)

\* mutant of AskQuantity: the minimum is 0, as at line 93
AskQuantityFromZero(in) == read_positive_int(in, 0, NoMaximum)

\* lines 122-125: read_positive_int(..., minimum=1)
AskQuantity(in) == read_positive_int(in, 1, NoMaximum)

\* lines 122-137: the quantity prompt
QuantityPrompt ==
    /\ pc = "qty"
    /\ \E in \in Deliveries(QuantityLines) :
        /\ Delivered(in)
        /\ LET r == AskQuantity(in)
           IN  IF r.kind = "KeyboardInterrupt"
               THEN ToMenu(r.out \o <<"action_cancelled">>) /\ UNCHANGED <<stock, cart>>
               ELSE IF r.kind = "EOFError"
               THEN MenuCaught(r.out) /\ UNCHANGED <<stock, cart>>
               ELSE IF r.kind = "again"
               THEN /\ pc' = "qty"
                    /\ out' = r.out
                    /\ total' = NoTotal
                    /\ UNCHANGED <<stock, cart, matches, product, available>>
               ELSE QuantityRead(r.value)
    /\ reported' = IF cart' # cart THEN NoTotal ELSE reported
    /\ UNCHANGED <<option, stock0, cart0>>

Next ==
    \/ MenuPrompt
    \/ Dispatch
    \/ Leave
    \/ NamePrompt
    \/ ChoicePrompt
    \/ QuantityPrompt

Spec == Init /\ [][Next]_vars

(***************************************************************************)
(* Claims.                                                                 *)
(***************************************************************************)
Range(seq) == {seq[i] : i \in 1..Len(seq)}

\* the integer the line just typed stands for, when it is one
TypedNext == ParseInt(typed')

\* C1: in every reachable state the quantity of every catalog product is an
\* integer >= 0.
C1_QuantityNeverNegative ==
    \A p \in DOMAIN stock : stock[p].quantity \in Nat

\* C1 witness: a product is sold out and a request for more than is left of
\* another product has just been rejected.
C1_Witness ==
    /\ pc = "menu"
    /\ out = <<"not_enough_stock">>
    /\ \E p \in DOMAIN stock : stock[p].quantity = 0

\* C2: when the quantity prompt of add-to-cart, asked for product p with
\* a > 0 available, is given q with 1 <= q <= a, the step appends exactly the
\* line (p, q, price of p) at the end of the cart, sets p's quantity to a - q
\* and leaves every other product and every earlier line unchanged.
C2_AddAppendsAndDecrements ==
    [][ ( /\ pc = "qty"
          /\ event' = "line"
          /\ TypedNext.ok
          /\ 1 <= TypedNext.value
          /\ TypedNext.value <= stock[product].quantity )
        => /\ stock[product].quantity > 0
           /\ cart' = cart \o << [product |-> product,
                                  quantity |-> TypedNext.value,
                                  price |-> stock[product].price] >>
           /\ stock'[product].quantity = stock[product].quantity - TypedNext.value
           /\ stock'[product].price = stock[product].price
           /\ DOMAIN stock' = DOMAIN stock
           /\ \A p \in DOMAIN stock \ {product} : stock'[p] = stock[p]
      ]_vars

\* C2 witness: 3 of rice (5.50, 10 in stock) were added behind an earlier
\* line: the new line is (rice, 3, 5.50) and 7 of rice are left.
C2_Witness ==
    /\ pc = "menu"
    /\ out = <<"added_to_cart">>
    /\ Len(cart) = 2
    /\ cart[2] = [product |-> rice, quantity |-> 3, price |-> 550]
    /\ cart[1].product # rice
    /\ stock[rice].quantity = 7

\* C3: a requested quantity greater than the available quantity is rejected,
\* and catalog and cart are as they were when add-to-cart started.
C3_TooManyRejected ==
    [][ ( /\ pc = "qty"
          /\ event' = "line"
          /\ TypedNext.ok
          /\ TypedNext.value > stock[product].quantity )
        => /\ pc' = "menu"
           /\ out' = <<"not_enough_stock">>
           /\ stock' = stock0
           /\ cart' = cart0
      ]_vars

\* C3 witness: 20 were asked with 7 of rice left (3 are in the cart).
C3_Witness ==
    /\ pc = "menu"
    /\ out = <<"not_enough_stock">>
    /\ typed = <<"2","0">>
    /\ cart = << [product |-> rice, quantity |-> 3, price |-> 550] >>
    /\ stock[rice].quantity = 7

\* C4: add-to-cart cancelled by a blank or "0" name, or by an interrupt at
\* the name, suggestion or quantity prompt, ends with catalog and cart as
\* they were when it started.
C4_CancelChangesNothing ==
    [][ ( \/ pc \in {"name", "choice", "qty"} /\ event' = "interrupt"
          \/ pc = "name" /\ event' = "line" /\ Strip(typed') \in {<<>>, <<"0">>} )
        => /\ pc' = "menu"
           /\ stock' = stock0
           /\ cart' = cart0
           /\ stock' = stock
           /\ cart' = cart
      ]_vars

\* C4 witness: with a line in the cart, the quantity prompt was interrupted.
C4_Witness ==
    /\ pc = "menu"
    /\ event = "interrupt"
    /\ out = <<"operation_cancelled", "action_cancelled">>
    /\ cart # <<>>

RECURSIVE SumOver(_, _)
\* the sum of f over the finite set S
SumOver(S, f) ==
    IF S = {} THEN 0
    ELSE LET x == CHOOSE x \in S : TRUE
         IN  f[x] + SumOver(S \ {x}, f)

\* the sum over the cart's lines of quantity x unit price of the line
LineSum == SumOver(1..Len(cart), [i \in 1..Len(cart) |-> cart[i].quantity * cart[i].price])

\* C5: the total checkout shows is the sum over the cart's lines of
\* quantity x unit price of the line; with an empty cart no total is shown
\* and the empty-cart message is.
C5_TotalIsLineSum ==
    (pc = "menu" /\ out # <<>> /\ out[1] = "cart_header")
        => IF cart = <<>>
           THEN out = <<"cart_header", "cart_empty">> /\ total = NoTotal
           ELSE \/ out = <<"cart_header", "cart_total">> /\ total = LineSum
                \/ out = <<"cart_header", "unexpected_error">> /\ total = NoTotal

\* C5 witness: checkout of 3 rice and 2 oil shows 16.50 + 12.00.
C5_Witness ==
    /\ pc = "menu"
    /\ out = <<"cart_header", "cart_total">>
    /\ cart = << [product |-> rice, quantity |-> 3, price |-> 550],
                 [product |-> oil, quantity |-> 2, price |-> 600] >>
    /\ total = 2850

\* the five options of the menu (lines 170-178)
MenuOptions == { <<"0">>, <<"1">>, <<"2">>, <<"3">>, <<"4">> }

\* C6: once "0" has been entered at the menu prompt the loop goes on to
\* Exiting and the menu prompt is not shown again; a text that is none of
\* "0".."4" is answered (at the dispatch of lines 170-183) with the
\* invalid-option error, the loop stays Running and catalog and cart are
\* unchanged.
C6_ZeroExitsOthersReported ==
    [][ /\ (pc \in {"sleep_short", "sleep_med"} /\ option = <<"0">>)
               => pc' \in {"sleep_med", "exited"}
        /\ (pc = "sleep_short" /\ option \notin MenuOptions /\ event' = "elapsed")
               => /\ pc' = "menu"
                  /\ out' = <<"invalid_option">>
                  /\ stock' = stock
                  /\ cart' = cart
      ]_vars

\* C7: the loop reaches Exiting only from the pause that follows an option
\* "0" typed at the menu prompt; an interrupt at the menu prompt, an
\* interrupt or end of input inside a handler and an error raised by a
\* handler all lead back to the menu prompt.
C7_OnlyOptionZeroExits ==
    [][ /\ pc' = "exited"
               => /\ pc = "sleep_med"
                  /\ option = <<"0">>
                  /\ Strip(typed) = <<"0">>
                  /\ event' = "elapsed"
        /\ (pc = "menu" /\ event' = "interrupt") => pc' = "menu"
        /\ (pc \in {"name", "choice", "qty"} /\ event' \in {"interrupt", "eof"})
               => pc' = "menu"
        /\ "unexpected_error" \in Range(out') => pc' = "menu"
      ]_vars

\* C7 witness: the loop has been left by option "0", after lines were added.
C7_Witness ==
    /\ pc = "exited"
    /\ event = "elapsed"
    /\ option = <<"0">>
    /\ Len(cart) = 2

\* C8: the catalog's product names are the seeded names and every price is
\* the seeded price.
C8_NamesAndPricesFixed ==
    /\ DOMAIN stock = DOMAIN SeedStock
    /\ \A p \in DOMAIN SeedStock : stock[p].price = SeedStock[p].price

\* C8 witness: all of the oil has just been moved to the cart.
C8_Witness ==
    /\ pc = "menu"
    /\ out = <<"added_to_cart">>
    /\ stock[oil].quantity = 0
    /\ cart[Len(cart)].product = oil

\* a cart line names a catalog product and holds a quantity >= 1
LineOk(line) ==
    /\ line.product \in DOMAIN stock
    /\ line.quantity \in Nat \ {0}

\* C9: every cart line names a catalog key and holds an integer quantity
\* >= 1; a line is appended with the price the catalog holds for its product
\* at that moment; no step modifies or removes a line.
C9_LinesValidAndKept ==
    /\ [](\A i \in 1..Len(cart) : LineOk(cart[i]))
    /\ [][ /\ Len(cart') \in {Len(cart), Len(cart) + 1}
           /\ SubSeq(cart', 1, Len(cart)) = cart
           /\ Len(cart') = Len(cart) + 1
                  => LET line == cart'[Len(cart')]
                     IN  /\ line.product \in DOMAIN stock
                         /\ line.price = stock[line.product].price
         ]_vars

\* C9 witness: a second line of the same product stands behind the first.
C9_Witness ==
    /\ Len(cart) = 2
    /\ cart[1].product = cart[2].product
    /\ cart[1].quantity # cart[2].quantity

\* C10: a name that, trimmed and lower-cased, is a catalog key is resolved
\* to that key in the same step: no suggestion is shown, neither the name
\* nor a choice is asked again, and add-to-cart goes on with that key (to the
\* quantity prompt, or to the no-stock message when none is left).
C10_ExactNameResolvedAtOnce ==
    [][ ( /\ pc = "name"
          /\ event' = "line"
          /\ Lower(Strip(typed')) \in DOMAIN stock )
        => LET key == Lower(Strip(typed'))
           IN  /\ Range(out') \cap {"did_you_mean", "no_suggestions"} = {}
               /\ matches' = <<>>
               /\ IF stock[key].quantity > 0
                  THEN pc' = "qty" /\ product' = key
                                   /\ available' = stock[key].quantity
                  ELSE pc' = "menu" /\ out' = <<"no_stock">>
      ]_vars

\* C10 witness: " Rice " was typed and the quantity of rice is being asked.
C10_Witness ==
    /\ pc = "qty"
    /\ typed = <<" ","R","i","c","e"," ">>
    /\ product = rice
    /\ out = <<>>

\* the name just typed, trimmed and lower-cased
NameNext == Lower(Strip(typed'))

\* the names that can be typed and have no close match among the seeded
\* keys, which are the catalog's keys at all times
NamesWithoutMatch ==
    {n \in {Lower(Strip(l)) : l \in NameLines} :
        get_close_matches(n, DOMAIN SeedStock) = <<>>}

\* the name just typed is no cancel, no catalog key and has no close match
UnknownWithoutMatch ==
    /\ pc = "name"
    /\ event' = "line"
    /\ NameNext \notin {<<>>, <<"0">>}
    /\ NameNext \notin DOMAIN stock
    /\ NameNext \in NamesWithoutMatch

\* C11, as claimed: for a name that is no catalog key and has no close
\* match the resolver returns none (add-to-cart ends with "no product
\* selected" at the menu).
C11_NoMatchReturnsNone ==
    [][ UnknownWithoutMatch
        => /\ pc' = "menu"
           /\ "no_product_selected" \in Range(out')
      ]_vars

\* C11, amended: for such a name the resolver prints the no-suggestions
\* message and asks for the name again; it does not return, and catalog and
\* cart are unchanged.
C11_NoMatchAsksAgain ==
    [][ UnknownWithoutMatch
        => /\ pc' = "name"
           /\ out' = <<"no_suggestions">>
           /\ product' = None
           /\ stock' = stock
           /\ cart' = cart
      ]_vars

\* C11 witness: "xyz" was typed and the name is being asked again.
C11_Witness ==
    /\ pc = "name"
    /\ event = "line"
    /\ typed = <<"x","y","z">>
    /\ out = <<"no_suggestions">>

\* the messages of a rejected entry of read_positive_int
Rejections == {<<"invalid_integer">>, <<"attention_minimum">>, <<"attention_maximum">>}

\* add_product received the catalog key p from the resolver
ResolvedTo(p) ==
    \/ pc' = "qty" /\ product' = p /\ available' = stock[p].quantity
    \/ stock[p].quantity <= 0 /\ pc' = "menu" /\ out' = <<"no_stock">>

\* C12: with N suggestions shown (1 <= N <= 3), the choice i in 1..N makes
\* the resolver return the i-th suggestion, the choice 0 goes back to the
\* product-name prompt without returning, and every other line typed
\* (non-integer, negative, above N) is rejected and the choice asked again.
C12_ChoiceSelectsRetriesOrRepeats ==
    [][ (pc = "choice" /\ event' = "line")
        => LET n == Len(matches)
               i == ParseInt(Strip(typed'))
           IN  /\ n \in 1..SuggestMax
               /\ stock' = stock
               /\ cart' = cart
               /\ IF i.ok /\ i.value \in 1..n
                  THEN ResolvedTo(matches[i.value])
                  ELSE IF i.ok /\ i.value = 0
                  THEN pc' = "name" /\ product' = None /\ out' = <<>>
                  ELSE pc' = "choice" /\ matches' = matches /\ out' \in Rejections
      ]_vars

\* C12 witness: the second of two suggestions was chosen and its quantity
\* is being asked.
C12_Witness ==
    /\ pc = "qty"
    /\ event = "line"
    /\ typed = <<"2">>
    /\ product = pasta

\* C13: read_positive_int, at both of its prompts (the suggestions with
\* minimum 0 and maximum N, the quantity with minimum 1 and no maximum),
\* returns only an integer v with minimum <= v (and v <= maximum when one is
\* given); a line that is no integer, or below the minimum, or above the
\* maximum, makes it ask again at the same prompt, nothing returned and
\* catalog and cart unchanged; an interrupt makes it return nothing and
\* reaches the caller, whose own handler ends the action.
C13_ValidatorReturnsOnlyInRange ==
    [][ (pc \in {"qty", "choice"})
        => LET minimum == IF pc = "qty" THEN 1 ELSE 0
               maximum == IF pc = "qty" THEN NoMaximum ELSE Len(matches)
               v == ParseInt(Strip(typed'))
               inRange == /\ v.ok
                          /\ minimum <= v.value
                          /\ maximum # NoMaximum => v.value <= maximum
           IN  /\ (event' = "line" /\ ~inRange)
                  => /\ pc' = pc
                     /\ out' \in Rejections
                     /\ UNCHANGED <<stock, cart, product, available, matches>>
               /\ (event' = "line" /\ inRange)
                  => /\ pc' # pc
                     /\ pc = "qty"
                        => \/ /\ v.value > available
                              /\ out' = <<"not_enough_stock">>
                              /\ UNCHANGED <<stock, cart>>
                           \/ /\ v.value <= available
                              /\ Len(cart') = Len(cart) + 1
                              /\ cart'[Len(cart')].quantity = v.value
               /\ event' = "interrupt"
                  => /\ pc' = "menu"
                     /\ Len(out') >= 2
                     /\ SubSeq(out', 1, 2) = <<"operation_cancelled", "action_cancelled">>
                     /\ UNCHANGED <<stock, cart>>
      ]_vars

\* C13 witness: 0 was typed as a quantity, refused as below the minimum 1,
\* and the quantity is being asked again.
C13_Witness ==
    /\ pc = "qty"
    /\ event = "line"
    /\ typed = <<"0">>
    /\ out = <<"attention_minimum">>
    /\ product # None

\* the catalog key the resolver is about to return for the line just read
\* at the name or suggestions prompt, None when it returns none or goes on
Resolving ==
    IF event' # "line" THEN None
    ELSE IF pc = "name"
    THEN IF NameNext \in DOMAIN stock THEN NameNext ELSE None
    ELSE IF pc = "choice"
    THEN LET i == ParseInt(Strip(typed'))
         IN  IF i.ok /\ i.value \in 1..Len(matches) THEN matches[i.value] ELSE None
    ELSE None

\* the lines of cart c that name product p
LinesOf(c, p) == {k \in DOMAIN c : c[k].product = p}

\* C14: when the resolved product has none available, add-to-cart ends at
\* the no-stock message without asking a quantity, catalog and cart
\* unchanged; and no step adds a cart line for a product whose quantity
\* is 0.
C14_SoldOutNeverAdded ==
    [][ /\ (Resolving # None /\ stock[Resolving].quantity = 0)
           => /\ pc' = "menu"
              /\ out' = <<"no_stock">>
              /\ stock' = stock
              /\ cart' = cart
        /\ \A p \in DOMAIN stock :
              stock[p].quantity = 0 => LinesOf(cart', p) = LinesOf(cart, p)
      ]_vars

\* C14 witness: oil is sold out, was asked for again by its name and was
\* refused.
C14_Witness ==
    /\ pc = "menu"
    /\ out = <<"no_stock">>
    /\ typed = oil
    /\ stock[oil].quantity = 0
    /\ LinesOf(cart, oil) # {}

\* C15: every value the resolver returns is none or a key of the catalog,
\* so the lookup of add-to-cart (line 117) never fails: the suggestions
\* shown are keys, the product whose quantity is asked is a key, and no
\* KeyError is ever reported.
C15_ResolvedIsNoneOrKey ==
    /\ Range(matches) \subseteq DOMAIN stock
    /\ product = None \/ product \in DOMAIN stock
    /\ pc = "qty" => product \in DOMAIN stock
    /\ "KeyError" \notin Range(out)

\* C15 witness: the only suggestion for "bens" was chosen and the quantity
\* of beans is being asked.
C15_Witness ==
    /\ pc = "qty"
    /\ event = "line"
    /\ typed = <<"1">>
    /\ product = beans
    /\ available = stock[beans].quantity

\* the units of product p in the cart
InCart(p) == SumOver(LinesOf(cart, p), [k \in 1..Len(cart) |-> cart[k].quantity])

DisplayOptions == { <<"1">>, <<"3">>, <<"4">> }

\* C17: the options 1, 3 and 4 leave catalog and cart as they were, and a
\* checkout that follows another checkout with no add in between reports
\* the same total.
C17_DisplayOnlyAndSameTotal ==
    [][ (pc = "sleep_short" /\ option \in DisplayOptions)
        => /\ stock' = stock
           /\ cart' = cart
           /\ pc' = "menu"
           /\ (reported # NoTotal /\ total' # NoTotal) => total' = reported
           /\ (reported # NoTotal /\ option = <<"3">> /\ event' = "elapsed")
              => "cart_empty" \notin Range(out')
      ]_vars

\* C17 witness: a second checkout of the same one-line cart has just
\* reported the total that the checkout before it reported.
C17_Witness ==
    /\ pc = "menu"
    /\ out = <<"cart_header", "cart_total">>
    /\ option = <<"3">>
    /\ cart0 = cart
    /\ total = reported
    /\ Len(cart) = 1
    /\ stock[pasta].quantity < SeedStock[pasta].quantity

====
